---- MODULE Spec2Model ----
(***************************************************************************)
(* Model of wandb_osh.syncer: WandbSyncer.loop, WandbSyncer.sync,          *)
(* get_seen / append_to_seen and sync_dir.                                 *)
(*                                                                         *)
(* Text (file contents, paths, identifiers, argument tokens) is a tuple of *)
(* one-character strings, so that strip / split / path arithmetic are      *)
(* computed the way Python computes them.  Time is counted in ticks of a   *)
(* quarter of a second, the finest delay the loop uses (time.sleep(0.25)). *)
(***************************************************************************)
EXTENDS Integers, Sequences, FiniteSets, TLC

\* ------------------------------------------------------------------ bounds

\* Number of steps other processes (marker producers, an external cleaner,
\* another writer of seen.txt) take on the command directory in one run.
MaxExternal == 2

\* ------------------------------------------------------- Python str helpers

Max(a, b) == IF a >= b THEN a ELSE b

\* The helpers below bind their argument once (v \in {s}) before they look
\* at it, so that a nested call is evaluated a single time.
Once(S) == CHOOSE r \in S : TRUE

Range(s) == UNION {{v[i] : i \in 1..Len(v)} : v \in {s}}

Last(s) == Once({v[Len(v)] : v \in {s}})

\* str.isspace for the characters that occur in the modelled files
IsSpace(c) == c \in {" ", "\n", "\t"}

RECURSIVE lstrip(_)
lstrip(s) ==
    Once({IF v # <<>> /\ IsSpace(Head(v)) THEN lstrip(Tail(v)) ELSE v : v \in {s}})

RECURSIVE rstrip(_)
rstrip(s) ==
    Once({IF v # <<>> /\ IsSpace(Last(v)) THEN rstrip(SubSeq(v, 1, Len(v) - 1)) ELSE v
            : v \in {s}})

\* str.strip()
strip(s) == rstrip(lstrip(s))

FirstSepIn(v, sep) ==
    IF \E i \in 1..Len(v) : v[i] = sep
    THEN CHOOSE i \in 1..Len(v) : v[i] = sep /\ \A j \in 1..(i - 1) : v[j] # sep
    ELSE Len(v) + 1

FirstSpaceIn(v) ==
    IF \E i \in 1..Len(v) : IsSpace(v[i])
    THEN CHOOSE i \in 1..Len(v) : IsSpace(v[i]) /\ \A j \in 1..(i - 1) : ~IsSpace(v[j])
    ELSE Len(v) + 1

\* index of the first separator (first blank) of s, Len(s)+1 when none
FirstSep(s, sep) == Once({FirstSepIn(v, sep) : v \in {s}})

FirstSpace(s) == Once({FirstSpaceIn(v) : v \in {s}})

\* str.split(sep): every separator cuts, empty pieces are kept, "" gives [""]
RECURSIVE split_sep(_, _)
split_sep(s, sep) ==
    Once({IF i > Len(v) THEN <<v>>
          ELSE <<SubSeq(v, 1, i - 1)>> \o split_sep(SubSeq(v, i + 1, Len(v)), sep)
            : <<v, i>> \in {<<w, FirstSepIn(w, sep)>> : w \in {s}}})

\* str.split(): runs of whitespace cut, empty pieces are dropped, "" gives []
RECURSIVE split_ws(_)
split_ws(s) ==
    Once({IF t = <<>> THEN <<>>
          ELSE <<SubSeq(t, 1, i - 1)>> \o split_ws(SubSeq(t, i, Len(t)))
            : <<t, i>> \in {<<w, FirstSpaceIn(w)>> : w \in {lstrip(s)}}})

\* ------------------------------------------------------------- pathlib.Path

RECURSIVE DropTrailingSlashes(_)
DropTrailingSlashes(s) ==
    Once({IF Len(v) > 1 /\ Last(v) = "/" THEN DropTrailingSlashes(SubSeq(v, 1, Len(v) - 1))
          ELSE v : v \in {s}})

\* Path(text).as_posix() for the texts modelled here: the empty path is ".",
\* trailing slashes are dropped
as_posix(text) ==
    Once({IF v = <<>> THEN <<".">> ELSE DropTrailingSlashes(v) : v \in {text}})

\* ------------------------------------------------------ files of the model

\* *.sbatch and *.command entries of the command directory
SbatchFiles == {"j1.sbatch"}
CommandFiles == {"r1.command", "r2.command"}
MarkerFiles == SbatchFiles \cup CommandFiles

\* a marker name that is not in the directory
NoFile == <<"<absent>">>

\* what producers write into schedule markers:
\*   "m s -q\n"  a scheduler command line;  "\n" an empty marker;
\*   "z"         a command that is not installed
SbatchContents ==
    { <<"m", " ", "s", " ", "-", "q", "\n">>, <<"\n">>, <<"z">> }

\* executables the operating system can start
Installed == { <<"m">> }

\* what producers write into sync markers (target paths):
\*   "r-a\n" run a;  "r-" (empty identifier);  "r-a b" (identifier with a
\*   blank);  "x-c" (no such directory);  "p-q/r" (dash in the parent only)
CommandContents ==
    { <<"r", "-", "a", "\n">>, <<"r", "-">>, <<"r", "-", "a", " ", "b">>,
      <<"x", "-", "c">>, <<"p", "-", "q", "/", "r">> }

\* directories that exist (the current directory always does)
Dirs ==
    { <<".">>, <<"r", "-", "a">>, <<"r", "-">>, <<"r", "-", "a", " ", "b">>,
      <<"p", "-", "q", "/", "r">> }

\* seen.txt as left by earlier runs of the loop: nothing, or run a recorded
InitialSeen == { <<>>, <<"a", "\n">> }

\* identifiers another writer of seen.txt records
ExternalIds == { <<"a">> }

\* configurations: wait (seconds), wandb_options, timeout (seconds)
Waits == {1, 100}
OptionLists == { <<>>, << <<"-", "v">> >> }
Timeouts == {0, 600}

\* one second in ticks
Second == 2 * 2

VARIABLES
    wait,            \* self.wait
    wandb_options,   \* self.wandb_options
    timeout,         \* self._timeout
    disable_append,  \* self.disable_append
    testMode,        \* "PYTEST_CURRENT_TEST" in os.environ
    files,           \* command_dir: marker name -> content, or NoFile
    seenFile,        \* content of command_dir/seen.txt (empty when missing)
    pc,              \* position of loop()
    sbQueue,         \* markers still to visit of the *.sbatch enumeration
    cmdQueue,        \* markers still to visit of the *.command enumeration
    elapsed,         \* time.time() - start_time, in ticks
    crashCalls,      \* invocations of the crash notification command
    ext,             \* steps taken by other processes so far
    lastEvent        \* what the last step did (observation only)

cfgVars == <<wait, wandb_options, timeout, disable_append, testMode>>
vars == <<wait, wandb_options, timeout, disable_append, testMode, files, seenFile,
          pc, sbQueue, cmdQueue, elapsed, crashCalls, ext, lastEvent>>

Running == {"start", "sbatch", "command"}

\* ------------------------------------------------------------- observation

NoEvent ==
    [kind |-> "none", file |-> "", outcome |-> "", argv |-> <<>>, target |-> <<>>,
     id |-> <<>>, new |-> FALSE, append |-> FALSE, slept |-> 0, took |-> 0]

Event(kind) == [NoEvent EXCEPT !.kind = kind]

\* ------------------------------------------------------- WandbSyncer, pure

\* get_seen (line 125): the identifiers read back from seen.txt
get_seen(text) == {strip(w) : w \in Range(split_ws(strip(text)))}

\* a slip in append_to_seen: the file opened with "w" instead of "a"
append_to_seen_truncating(text, wandb_id) == wandb_id \o <<"\n">>

\* append_to_seen (lines 130-131)
append_to_seen(text, wandb_id) == text \o wandb_id \o <<"\n">>

\* line 80: target = Path(command_file.read_text().strip())
target_of(content) == as_posix(strip(content))

\* a slip at line 81: the check of the target left out
is_dir_unchecked(target) == TRUE

\* line 81: target.is_dir()
is_dir(target) == target \in Dirs

\* line 91: wandb_id = target.as_posix().split('-')[-1]
wandb_id_of(target) == Last(split_sep(as_posix(target), "-"))

\* a slip at line 95: disable_append ignored
append_flag_ignoring_disable(disable, new) == ~new

\* line 95: append = False if self.disable_append else not new
append_flag(disable, new) == IF disable THEN FALSE ELSE ~new

\* line 48: the --append switch of wandb sync
AppendToken == <<"-", "-", "a", "p", "p", "e", "n", "d">>

\* line 48: options=self.wandb_options + ['--append'] if append else []
\* (the conditional expression binds weaker than +)
sync_options(options, append) ==
    IF append THEN options \o <<AppendToken>> ELSE <<>>

\* line 148: command = ["wandb", "sync", *options, "."]
sync_command(options) ==
    << <<"w", "a", "n", "d", "b">>, <<"s", "y", "n", "c">> >> \o options \o << <<".">> >>

\* lines 64-65: cmd = file.read_text().strip(); cmd = cmd.split(' ')
sbatch_argv(content) == split_sep(strip(content), " ")

\* subprocess.run starts argv[0] or raises FileNotFoundError
CanStart(argv) == argv[1] \in Installed

\* line 62 / line 79: time.sleep(60)
GracePeriod == 60 * Second

\* line 72 / line 99: time.sleep(0.25)
Pause == Second \div 4

\* line 116: time.sleep(max(0.0, (time.time() - start_time) - self.wait))
sleep_time(took, w) == Max(0, took - w * Second)

\* lines 73-74 / 87-88 / 100-101: if file.is_file(): file.unlink()
unlink(fs, f) == [fs EXCEPT ![f] = NoFile]

\* the markers a glob finds, in any order the directory yields them
Present(names) == {f \in names : files[f] # NoFile}

Orders(S) ==
    {q \in UNION {[1..n -> S] : n \in {Cardinality(S)}} :
        \A i, j \in 1..Len(q) : i # j => q[i] # q[j]}

\* lines 97-98 and 102: the identifier is recorded when the sync call returns
\* and the run was new; a timeout records nothing
seen_after_sync(text, wandb_id, new, outcome) ==
    IF outcome # "timeout" /\ new THEN append_to_seen(text, wandb_id) ELSE text

\* a slip at lines 99-103: the unlink moved out of the try block
markers_after_sync_always(fs, f, outcome) == unlink(fs, f)

\* a slip at lines 99-103: the marker also kept when wandb sync failed
markers_after_sync_keep_failed(fs, f, outcome) ==
    IF outcome \in {"timeout", "nonzero"} THEN fs ELSE unlink(fs, f)

\* lines 99-103: the marker is unlinked when the sync call returns; a timeout
\* leaves it for a later scan
markers_after_sync(fs, f, outcome) ==
    IF outcome = "timeout" THEN fs ELSE unlink(fs, f)

\* a slip at lines 68-74: the unlink moved under returncode == 0
markers_after_sbatch_on_success(fs, f, returncode) ==
    IF returncode = 0 THEN unlink(fs, f) ELSE fs

\* lines 67-74: the marker is unlinked after the command returned, whatever
\* its return code
markers_after_sbatch(fs, f, returncode) == unlink(fs, f)

\* line 153 and subprocess.run: what a started or unstartable `wandb sync` can
\* do; TimeoutExpired needs a timeout > 0
SyncOutcomes(t) ==
    {"exit0", "nonzero", "nostart"} \cup (IF t > 0 THEN {"timeout"} ELSE {})

\* ----------------------------------------------------------------- actions

Init ==
    /\ wait \in Waits
    /\ wandb_options \in OptionLists
    /\ timeout \in Timeouts
    /\ disable_append \in BOOLEAN
    /\ testMode \in BOOLEAN
    /\ files = [f \in MarkerFiles |-> NoFile]
    /\ seenFile \in InitialSeen
    /\ pc = "start"
    /\ sbQueue = <<>>
    /\ cmdQueue = <<>>
    /\ elapsed = 0
    /\ crashCalls = 0
    /\ ext = 0
    /\ lastEvent = NoEvent

\* lines 119-120: any error but KeyboardInterrupt reaches the bare except, which
\* runs the notification command; loop() then returns, unless that command
\* cannot be started and its own error leaves loop()
Crash(started) ==
    /\ crashCalls' = crashCalls + 1
    /\ pc' = IF started THEN "returned" ELSE "raised"

\* lines 57-61: a new iteration: start_time, mkdir, the *.sbatch enumeration
IterStart ==
    /\ pc = "start"
    /\ \E q \in Orders(Present(SbatchFiles)) : sbQueue' = q
    /\ pc' = "sbatch"
    /\ elapsed' = 0
    /\ lastEvent' = Event("start")
    /\ UNCHANGED <<cfgVars, files, seenFile, cmdQueue, crashCalls, ext>>

\* lines 62-64: the marker is gone when read_text opens it
SbatchVanished ==
    /\ pc = "sbatch" /\ sbQueue # <<>>
    /\ files[Head(sbQueue)] = NoFile
    /\ \E started \in BOOLEAN : Crash(started)
    /\ elapsed' = elapsed + GracePeriod
    /\ lastEvent' = [Event("sbatch") EXCEPT !.file = Head(sbQueue), !.outcome = "vanished"]
    /\ UNCHANGED <<cfgVars, files, seenFile, sbQueue, cmdQueue, ext>>

\* lines 62-67: subprocess.run cannot start the command
SbatchNoStart ==
    /\ pc = "sbatch" /\ sbQueue # <<>>
    /\ files[Head(sbQueue)] # NoFile
    /\ ~CanStart(sbatch_argv(files[Head(sbQueue)]))
    /\ \E started \in BOOLEAN : Crash(started)
    /\ elapsed' = elapsed + GracePeriod
    /\ lastEvent' = [Event("sbatch") EXCEPT !.file = Head(sbQueue), !.outcome = "nostart",
                                            !.argv = sbatch_argv(files[Head(sbQueue)])]
    /\ UNCHANGED <<cfgVars, files, seenFile, sbQueue, cmdQueue, ext>>

\* lines 62-74: the command runs and returns a code; the marker is unlinked
SbatchRun ==
    /\ pc = "sbatch" /\ sbQueue # <<>>
    /\ files[Head(sbQueue)] # NoFile
    /\ CanStart(sbatch_argv(files[Head(sbQueue)]))
    /\ \E returncode \in {0, 1} :
        /\ files' = markers_after_sbatch(files, Head(sbQueue), returncode)
        /\ lastEvent' = [Event("sbatch") EXCEPT !.file = Head(sbQueue),
                            !.outcome = IF returncode = 0 THEN "exit0" ELSE "nonzero",
                            !.argv = sbatch_argv(files[Head(sbQueue)])]
    /\ sbQueue' = Tail(sbQueue)
    /\ elapsed' = elapsed + GracePeriod + Pause
    /\ UNCHANGED <<cfgVars, seenFile, pc, cmdQueue, crashCalls, ext>>

\* line 78: the *.sbatch loop is over; the *.command enumeration
GlobCommands ==
    /\ pc = "sbatch" /\ sbQueue = <<>>
    /\ \E q \in Orders(Present(CommandFiles)) : cmdQueue' = q
    /\ pc' = "command"
    /\ lastEvent' = Event("glob")
    /\ UNCHANGED <<cfgVars, files, seenFile, sbQueue, elapsed, crashCalls, ext>>

\* lines 79-80: the marker is gone when read_text opens it
CommandVanished ==
    /\ pc = "command" /\ cmdQueue # <<>>
    /\ files[Head(cmdQueue)] = NoFile
    /\ \E started \in BOOLEAN : Crash(started)
    /\ elapsed' = elapsed + GracePeriod
    /\ lastEvent' = [Event("sync") EXCEPT !.file = Head(cmdQueue), !.outcome = "vanished"]
    /\ UNCHANGED <<cfgVars, files, seenFile, sbQueue, cmdQueue, ext>>

\* lines 79-89: the target is no directory
CommandMissingTarget ==
    /\ pc = "command" /\ cmdQueue # <<>>
    /\ files[Head(cmdQueue)] # NoFile
    /\ ~is_dir(target_of(files[Head(cmdQueue)]))
    /\ files' = unlink(files, Head(cmdQueue))
    /\ cmdQueue' = Tail(cmdQueue)
    /\ elapsed' = elapsed + GracePeriod
    /\ lastEvent' = [Event("sync") EXCEPT !.file = Head(cmdQueue), !.outcome = "missing",
                                          !.target = target_of(files[Head(cmdQueue)])]
    /\ UNCHANGED <<cfgVars, seenFile, pc, sbQueue, crashCalls, ext>>

\* what lines 91-96 and sync / sync_dir compute for a marker
SyncEvent(f, outcome) ==
    LET target == target_of(files[f])
        wandb_id == wandb_id_of(target)
        new == wandb_id \notin get_seen(seenFile)
        append == append_flag(disable_append, new)
    IN  [Event("sync") EXCEPT !.file = f, !.outcome = outcome, !.target = target,
            !.id = wandb_id, !.new = new, !.append = append,
            !.argv = sync_command(sync_options(wandb_options, append))]

\* lines 79-106 with sync_dir under PYTEST_CURRENT_TEST (lines 149-152): the
\* command is composed and logged, nothing runs, sync returns
CommandSyncSkipped ==
    /\ pc = "command" /\ cmdQueue # <<>>
    /\ files[Head(cmdQueue)] # NoFile
    /\ is_dir(target_of(files[Head(cmdQueue)]))
    /\ testMode
    /\ LET ev == SyncEvent(Head(cmdQueue), "skipped")
       IN  /\ seenFile' = seen_after_sync(seenFile, ev.id, ev.new, ev.outcome)
           /\ files' = markers_after_sync(files, Head(cmdQueue), ev.outcome)
           /\ lastEvent' = ev
    /\ cmdQueue' = Tail(cmdQueue)
    /\ elapsed' = elapsed + GracePeriod + Pause
    /\ UNCHANGED <<cfgVars, pc, sbQueue, crashCalls, ext>>

\* lines 79-101, 153-154: `wandb sync` runs and returns (with any code)
CommandSyncReturned ==
    /\ pc = "command" /\ cmdQueue # <<>>
    /\ files[Head(cmdQueue)] # NoFile
    /\ is_dir(target_of(files[Head(cmdQueue)]))
    /\ ~testMode
    /\ \E outcome \in SyncOutcomes(timeout) \cap {"exit0", "nonzero"} :
        LET ev == SyncEvent(Head(cmdQueue), outcome)
        IN  /\ seenFile' = seen_after_sync(seenFile, ev.id, ev.new, ev.outcome)
            /\ files' = markers_after_sync(files, Head(cmdQueue), ev.outcome)
            /\ lastEvent' = ev
    /\ cmdQueue' = Tail(cmdQueue)
    /\ elapsed' = elapsed + GracePeriod + Pause
    /\ UNCHANGED <<cfgVars, pc, sbQueue, crashCalls, ext>>

\* lines 79-96, 102-106, 153-154: `wandb sync` exceeds the timeout
CommandSyncTimeout ==
    /\ pc = "command" /\ cmdQueue # <<>>
    /\ files[Head(cmdQueue)] # NoFile
    /\ is_dir(target_of(files[Head(cmdQueue)]))
    /\ ~testMode
    /\ "timeout" \in SyncOutcomes(timeout)
    /\ LET ev == SyncEvent(Head(cmdQueue), "timeout")
       IN  /\ seenFile' = seen_after_sync(seenFile, ev.id, ev.new, ev.outcome)
           /\ files' = markers_after_sync(files, Head(cmdQueue), ev.outcome)
           /\ lastEvent' = ev
    /\ cmdQueue' = Tail(cmdQueue)
    /\ elapsed' = elapsed + GracePeriod + timeout * Second
    /\ UNCHANGED <<cfgVars, pc, sbQueue, crashCalls, ext>>

\* lines 79-96, 154: `wandb sync` cannot be started (FileNotFoundError)
CommandSyncNoStart ==
    /\ pc = "command" /\ cmdQueue # <<>>
    /\ files[Head(cmdQueue)] # NoFile
    /\ is_dir(target_of(files[Head(cmdQueue)]))
    /\ ~testMode
    /\ "nostart" \in SyncOutcomes(timeout)
    /\ \E started \in BOOLEAN : Crash(started)
    /\ elapsed' = elapsed + GracePeriod
    /\ lastEvent' = SyncEvent(Head(cmdQueue), "nostart")
    /\ UNCHANGED <<cfgVars, files, seenFile, sbQueue, cmdQueue, ext>>

\* a slip at lines 114-115: the break left out, the test run scans again
EndBreak_no_break ==
    /\ pc = "command" /\ cmdQueue = <<>>
    /\ testMode
    /\ pc' = "start"
    /\ lastEvent' = [Event("break") EXCEPT !.took = elapsed]
    /\ UNCHANGED <<cfgVars, files, seenFile, sbQueue, cmdQueue, elapsed, crashCalls, ext>>

\* lines 114-115: under PYTEST_CURRENT_TEST the loop is left after one pass
EndBreak ==
    /\ pc = "command" /\ cmdQueue = <<>>
    /\ testMode
    /\ pc' = "returned"
    /\ lastEvent' = [Event("break") EXCEPT !.took = elapsed]
    /\ UNCHANGED <<cfgVars, files, seenFile, sbQueue, cmdQueue, elapsed, crashCalls, ext>>

\* line 116: the sleep that ends an iteration
EndSleep ==
    /\ pc = "command" /\ cmdQueue = <<>>
    /\ ~testMode
    /\ pc' = "start"
    /\ lastEvent' = [Event("sleep") EXCEPT !.took = elapsed,
                                           !.slept = sleep_time(elapsed, wait)]
    /\ UNCHANGED <<cfgVars, files, seenFile, sbQueue, cmdQueue, elapsed, crashCalls, ext>>

\* lines 117-118: KeyboardInterrupt anywhere in the loop
Interrupt ==
    /\ pc \in Running
    /\ pc' = "returned"
    /\ lastEvent' = Event("interrupt")
    /\ UNCHANGED <<cfgVars, files, seenFile, sbQueue, cmdQueue, elapsed, crashCalls, ext>>

\* ---------------------------------------- other processes on command_dir

\* a producer (the hook of a training job) drops a schedule marker
ProduceSbatch ==
    /\ pc \in Running /\ ext < MaxExternal
    /\ \E f \in SbatchFiles, c \in SbatchContents :
        /\ files[f] = NoFile
        /\ files' = [files EXCEPT ![f] = c]
    /\ ext' = ext + 1
    /\ lastEvent' = Event("external")
    /\ UNCHANGED <<cfgVars, seenFile, pc, sbQueue, cmdQueue, elapsed, crashCalls>>

\* a producer drops a sync marker
ProduceCommand ==
    /\ pc \in Running /\ ext < MaxExternal
    /\ \E f \in CommandFiles, c \in CommandContents :
        /\ files[f] = NoFile
        /\ files' = [files EXCEPT ![f] = c]
    /\ ext' = ext + 1
    /\ lastEvent' = Event("external")
    /\ UNCHANGED <<cfgVars, seenFile, pc, sbQueue, cmdQueue, elapsed, crashCalls>>

\* another process removes a marker
RemoveMarker ==
    /\ pc \in Running /\ ext < MaxExternal
    /\ \E f \in MarkerFiles :
        /\ files[f] # NoFile
        /\ files' = unlink(files, f)
    /\ ext' = ext + 1
    /\ lastEvent' = Event("external")
    /\ UNCHANGED <<cfgVars, seenFile, pc, sbQueue, cmdQueue, elapsed, crashCalls>>

\* another syncer on the same command directory records an identifier
ExternalSeen ==
    /\ pc \in Running /\ ext < MaxExternal
    /\ \E i \in ExternalIds : seenFile' = append_to_seen(seenFile, i)
    /\ ext' = ext + 1
    /\ lastEvent' = Event("external")
    /\ UNCHANGED <<cfgVars, files, pc, sbQueue, cmdQueue, elapsed, crashCalls>>

Next ==
    \/ IterStart
    \/ SbatchVanished
    \/ SbatchNoStart
    \/ SbatchRun
    \/ GlobCommands
    \/ CommandVanished
    \/ CommandMissingTarget
    \/ CommandSyncSkipped
    \/ CommandSyncReturned
    \/ CommandSyncTimeout
    \/ CommandSyncNoStart
    \/ EndBreak
    \/ EndSleep
    \/ Interrupt
    \/ ProduceSbatch
    \/ ProduceCommand
    \/ RemoveMarker
    \/ ExternalSeen

Spec == Init /\ [][Next]_vars

\* ------------------------------------------------------------ properties

\* the lines written to seen.txt so far (each ended by a newline)
Lines(text) ==
    LET pieces == split_sep(text, "\n") IN SubSeq(pieces, 1, Len(pieces) - 1)

Count(x, seq) == Cardinality({i \in 1..Len(seq) : seq[i] = x})

HasAppend(argv) == AppendToken \in Range(argv)

\* the step taken was a sync call of loop() that returned (no timeout, no error)
SyncReturned(ev) == ev.kind = "sync" /\ ev.outcome \in {"exit0", "nonzero", "skipped"}

\* the step taken composed a `wandb sync` command
SyncCalled(ev) ==
    ev.kind = "sync" /\ ev.outcome \in {"exit0", "nonzero", "skipped", "timeout", "nostart"}

\* C1: the first sync of a run identifier that returns is a full sync (no
\* --append) and leaves the identifier in seen.txt exactly once; every later
\* sync of the same identifier uses --append (unless disable_append) and leaves
\* seen.txt as it was, so no scan writes an identifier a second time.
\* (An identifier is taken as synced before when a line of seen.txt holds it,
\* and as never synced when neither a line nor get_seen() holds it.)
C1_FirstFullThenAppend ==
    [][SyncReturned(lastEvent') =>
        /\ (/\ lastEvent'.id \notin Range(Lines(seenFile))
            /\ lastEvent'.id \notin get_seen(seenFile)) =>
                /\ ~HasAppend(lastEvent'.argv)
                /\ Count(lastEvent'.id, Lines(seenFile')) = 1
        /\ lastEvent'.id \in Range(Lines(seenFile)) =>
                /\ ~disable_append => HasAppend(lastEvent'.argv)
                /\ seenFile' = seenFile]_vars

\* C2: a sync call that times out leaves the marker with its content and
\* seen.txt as they were, raises nothing, and the loop goes on with the
\* markers that remain of the scan.
C2_TimeoutKeepsMarker ==
    [][(lastEvent'.kind = "sync" /\ lastEvent'.outcome = "timeout") =>
        /\ pc = "command" /\ cmdQueue # <<>>
        /\ files[Head(cmdQueue)] # NoFile
        /\ files' = files
        /\ seenFile' = seenFile
        /\ lastEvent'.id \notin get_seen(seenFile') \ get_seen(seenFile)
        /\ crashCalls' = crashCalls
        /\ pc' = "command"
        /\ cmdQueue' = Tail(cmdQueue)]_vars

\* C2 witness: a sync timed out, its marker is still there, the run is not in
\* the seen set, and another marker of the same scan is next.
C2_Witness ==
    /\ lastEvent.kind = "sync" /\ lastEvent.outcome = "timeout"
    /\ files[lastEvent.file] # NoFile
    /\ lastEvent.id \notin get_seen(seenFile)
    /\ pc = "command" /\ cmdQueue # <<>>

\* C3: when loop() handles a sync marker whose content is not the path of an
\* existing directory, the marker is removed, no sync command is composed or
\* run, and seen.txt is untouched.
C3_MissingTargetDiscarded ==
    [][(/\ pc = "command" /\ cmdQueue # <<>>
        /\ files[Head(cmdQueue)] # NoFile
        /\ target_of(files[Head(cmdQueue)]) \notin Dirs
        /\ lastEvent'.kind = "sync") =>
        /\ lastEvent'.outcome = "missing"
        /\ lastEvent'.argv = <<>>
        /\ files' = [files EXCEPT ![Head(cmdQueue)] = NoFile]
        /\ seenFile' = seenFile
        /\ crashCalls' = crashCalls
        /\ pc' = "command"]_vars

\* C3 witness: a marker naming the missing directory x-c was handled and is gone.
C3_Witness ==
    /\ lastEvent.kind = "sync" /\ lastEvent.outcome = "missing"
    /\ lastEvent.target = <<"x", "-", "c">>
    /\ files[lastEvent.file] = NoFile

\* C4: every sync command is wandb sync, then the configured wandb_options,
\* then --append exactly when append is true, then ".".
C4_OptionsAlwaysPassed ==
    SyncCalled(lastEvent) =>
        lastEvent.argv =
            << <<"w", "a", "n", "d", "b">>, <<"s", "y", "n", "c">> >>
            \o wandb_options
            \o (IF lastEvent.append THEN <<AppendToken>> ELSE <<>>)
            \o << <<".">> >>

\* C5: with disable_append set no sync command carries --append, whether or
\* not the identifier is in the seen set, and a sync that returns for an
\* identifier that is not in the seen set still writes it to seen.txt.
C5_DisableAppendAlwaysFull ==
    [][(disable_append /\ SyncCalled(lastEvent')) =>
        /\ ~HasAppend(lastEvent'.argv)
        /\ (SyncReturned(lastEvent') /\ lastEvent'.id \notin get_seen(seenFile)) =>
                Lines(seenFile') = Append(Lines(seenFile), lastEvent'.id)
        /\ (SyncReturned(lastEvent') /\ lastEvent'.id \in get_seen(seenFile)) =>
                seenFile' = seenFile]_vars

\* C5 witness: with disable_append set, a run already in the seen set was
\* synced again, in full mode.
C5_Witness ==
    /\ disable_append
    /\ SyncReturned(lastEvent)
    /\ lastEvent.id \in get_seen(seenFile) /\ ~lastEvent.new
    /\ ~HasAppend(lastEvent.argv)

\* C6: a schedule marker whose command ran (return code zero or not) was run
\* with the trimmed content split on single spaces, is removed by that very
\* step, and is not visited again in the scan, so no later scan finds it.
C6_SbatchRunOnceAndRemoved ==
    [][(/\ pc = "sbatch" /\ sbQueue # <<>>
        /\ lastEvent'.kind = "sbatch"
        /\ lastEvent'.outcome \in {"exit0", "nonzero"}) =>
        /\ lastEvent'.file = Head(sbQueue)
        /\ files[Head(sbQueue)] # NoFile
        /\ lastEvent'.argv = split_sep(strip(files[Head(sbQueue)]), " ")
        /\ (files[Head(sbQueue)] = <<"m", " ", "s", " ", "-", "q", "\n">> =>
                lastEvent'.argv = << <<"m">>, <<"s">>, <<"-", "q">> >>)
        /\ files' = [files EXCEPT ![Head(sbQueue)] = NoFile]
        /\ Head(sbQueue) \notin Range(sbQueue')
        /\ pc' = "sbatch"]_vars

\* C6 witness: the scheduler returned a non-zero code and the marker is gone.
C6_Witness ==
    /\ lastEvent.kind = "sbatch" /\ lastEvent.outcome = "nonzero"
    /\ lastEvent.argv = << <<"m">>, <<"s">>, <<"-", "q">> >>
    /\ files[lastEvent.file] = NoFile

\* C7: get_seen() never loses an identifier: whatever step is taken (a sync
\* that returns or times out, a missing target, a schedule marker, another
\* writer), every identifier it returned before is returned after.
C7_SeenOnlyGrows ==
    [][get_seen(seenFile) \subseteq get_seen(seenFile')]_vars

\* C7 witness: a new run was just recorded while an older identifier is still
\* returned by get_seen().
C7_Witness ==
    /\ SyncReturned(lastEvent) /\ lastEvent.new
    /\ lastEvent.id = <<"q", "/", "r">>
    /\ {<<"a">>, <<"q", "/", "r">>} \subseteq get_seen(seenFile)

\* C8: a tool that cannot be started (an empty or unknown schedule command,
\* wandb missing) is dealt with inside the iteration: the loop is still
\* running afterwards and no crash notification was sent.
C8_ToolFailureStaysInLoop ==
    lastEvent.outcome = "nostart" => (pc \in Running /\ crashCalls = 0)

\* C9: a marker that another process removed between the enumeration and the
\* read is taken as handled: no tool, no error, no crash notification, and
\* the loop is still running.
C9_VanishedMarkerTolerated ==
    lastEvent.outcome = "vanished" =>
        (pc \in Running /\ crashCalls = 0 /\ lastEvent.argv = <<>>)

\* C10: the sleep that ends an iteration is max(0, wait - elapsed), so two
\* iteration starts are at least wait apart.
C10_SleepFillsWait ==
    lastEvent.kind = "sleep" =>
        /\ lastEvent.slept = Max(0, wait * Second - lastEvent.took)
        /\ lastEvent.took + lastEvent.slept >= wait * Second

\* Path.name: the last component of a path
LastComponent(path) == Last(split_sep(path, "/"))

\* C11: the run identifier of a sync is the final '-'-delimited segment of
\* the last component of the target path; a '-' in a parent directory does
\* not change it.
C11_IdFromLastComponent ==
    SyncCalled(lastEvent) =>
        lastEvent.id = Last(split_sep(LastComponent(lastEvent.target), "-"))

\* C12: an error that escapes an iteration sends the crash notification once
\* and then leaves loop() as an error (no normal return); a user interrupt
\* ends loop() normally with no notification.
C12_CrashNotifiedAndPropagated ==
    /\ lastEvent.outcome \in {"nostart", "vanished"} =>
            (crashCalls = 1 /\ pc = "raised")
    /\ lastEvent.kind = "interrupt" => (crashCalls = 0 /\ pc = "returned")

\* C13: a wandb sync that exits with a non-zero status does not put the
\* identifier into seen.txt.
C13_FailedSyncNotRecorded ==
    [][(lastEvent'.kind = "sync" /\ lastEvent'.outcome = "nonzero") =>
            seenFile' = seenFile]_vars

\* C14: when loop() has handled a sync marker and no error left the
\* iteration, the marker is still there exactly when the sync timed out; it
\* is gone after a sync that returned (zero or non-zero status, or skipped
\* in test mode) and after a missing target.
C14_MarkerSurvivesOnlyTimeout ==
    [][(/\ pc = "command" /\ cmdQueue # <<>>
        /\ files[Head(cmdQueue)] # NoFile
        /\ lastEvent'.kind = "sync"
        /\ pc' = "command") =>
        /\ lastEvent'.file = Head(cmdQueue)
        /\ lastEvent'.outcome \in {"exit0", "nonzero", "skipped", "missing", "timeout"}
        /\ (files'[Head(cmdQueue)] # NoFile) <=> (lastEvent'.outcome = "timeout")
        /\ lastEvent'.outcome = "timeout" => files'[Head(cmdQueue)] = files[Head(cmdQueue)]]_vars

\* C14 witness: wandb sync exited non-zero and the marker is gone.
C14_Witness ==
    /\ lastEvent.kind = "sync" /\ lastEvent.outcome = "nonzero"
    /\ files[lastEvent.file] = NoFile
    /\ pc = "command"

\* C17: the new/append decision is taken on seen.txt as it is when the marker
\* is handled: an identifier that a line of seen.txt holds by then (written by
\* an earlier marker of the same scan or by another writer) is synced with
\* --append (unless disable_append) and is not written again.
C17_DecisionOnCurrentSeen ==
    [][(SyncCalled(lastEvent') /\ lastEvent'.id \in Range(Lines(seenFile))) =>
        /\ ~lastEvent'.new
        /\ ~disable_append => HasAppend(lastEvent'.argv)
        /\ Lines(seenFile') = Lines(seenFile)]_vars

\* the step was taken by loop() itself
LoopStep(ev) == ev.kind \in {"start", "glob", "sbatch", "sync", "break", "sleep"}

\* C18: in test mode loop() scans once: it never sleeps and never starts a
\* second iteration, the end of the scan returns; every sync call is skipped
\* (the tool is not run) and counts as a success: the marker is removed and
\* the identifier is recorded (written now, or in the seen set already).
C18_TestModeOneIteration ==
    [][testMode =>
        /\ pc # "start" => pc' # "start"
        /\ lastEvent'.kind # "sleep"
        /\ (pc = "command" /\ cmdQueue = <<>> /\ LoopStep(lastEvent')) =>
                (lastEvent'.kind = "break" /\ pc' = "returned")
        /\ SyncCalled(lastEvent') =>
                /\ lastEvent'.outcome = "skipped"
                /\ files'[lastEvent'.file] = NoFile
                /\ \/ Lines(seenFile') = Append(Lines(seenFile), lastEvent'.id)
                   \/ lastEvent'.id \in get_seen(seenFile) /\ seenFile' = seenFile
                /\ crashCalls' = crashCalls
                /\ pc' = "command"]_vars

\* C18 witness: the test run ended after a scan in which a new run was
\* recorded without running the tool.
C18_Witness ==
    /\ testMode /\ pc = "returned" /\ lastEvent.kind = "break"
    /\ lastEvent.took > 0
    /\ <<"q", "/", "r">> \in get_seen(seenFile)

\* C19: after loop() recorded a run (a sync returned), get_seen() returns its
\* identifier, whatever identifier the target path gives.
C19_SeenRoundTrip ==
    SyncReturned(lastEvent) => lastEvent.id \in get_seen(seenFile)

\* ------------------------------------------------- the retry, with fairness

\* production use: no test variable, a timeout configured (line 153)
LiveInit == Init /\ ~testMode /\ timeout > 0

\* the steps of loop() over sync markers when no error leaves an iteration
LoopNext ==
    \/ IterStart
    \/ GlobCommands
    \/ CommandMissingTarget
    \/ CommandSyncReturned
    \/ CommandSyncTimeout
    \/ EndSleep

LiveNext == LoopNext \/ ProduceCommand

\* `while True` (line 56) keeps taking steps, every sleep ends, and wandb sync
\* does not time out for ever
LiveSpec ==
    /\ LiveInit
    /\ [][LiveNext]_vars
    /\ WF_vars(LoopNext)
    /\ SF_vars(CommandSyncReturned)

\* the sync of marker f, holding content c, has just timed out
TimedOut(f, c) ==
    /\ lastEvent.kind = "sync" /\ lastEvent.outcome = "timeout"
    /\ lastEvent.file = f
    /\ files[f] = c

\* C16: a sync marker whose sync timed out is handled again by a later
\* iteration; with the target in place, a tool that stops timing out and no
\* error leaving the loop, the marker is eventually removed and its
\* identifier is eventually in the seen set.
C16_RetryEventuallySeen ==
    \A f \in CommandFiles : \A c \in CommandContents :
        TimedOut(f, c) ~>
            (files[f] = NoFile /\ wandb_id_of(target_of(c)) \in get_seen(seenFile))

\* The part of C16 that holds of the loop: the marker is eventually removed
\* by a sync that returned.
C16_RetryEventuallyRemoved ==
    \A f \in CommandFiles : \A c \in CommandContents :
        TimedOut(f, c) ~> (files[f] = NoFile /\ SyncReturned(lastEvent))

====
